---- MODULE Spec2Model ----
(***************************************************************************)
(* The I2C master driver of esp32-hal (src/src/i2c.rs): the command        *)
(* encoder, the FIFO windows, and the three blocking transfers write,      *)
(* read and write_then_read, run against a model of the peripheral         *)
(* (command slots with done flags, the two FIFOs, the command engine).     *)
(***************************************************************************)
EXTENDS Integers, Sequences, FiniteSets, TLC

(***************************************************************************)
(* Bounds of the model                                                     *)
(***************************************************************************)
\* longest of the exhaustively enumerated outgoing byte sequences
MaxLen == 2
\* longest of the exhaustively enumerated receive buffers
MaxBuf == 3

(***************************************************************************)
(* Program constants                                                       *)
(***************************************************************************)
DPORT_BASE_ADDR == 1072955392
AHB_BASE_ADDR == 1610612736
FIFO_OFFSET == 28
I2C0_OFFSET == 77824
I2C1_OFFSET == 159744

DPORT_I2C0_ADDR == DPORT_BASE_ADDR + I2C0_OFFSET
DPORT_I2C1_ADDR == DPORT_BASE_ADDR + I2C1_OFFSET
AHB_I2C0_ADDR == AHB_BASE_ADDR + I2C0_OFFSET
AHB_I2C1_ADDR == AHB_BASE_ADDR + I2C1_OFFSET

\* enum OperationType
OperationType_WRITE == 0
OperationType_READ == 1

\* enum Opcode
Opcode_RSTART == 0
Opcode_WRITE == 1
Opcode_READ == 2
Opcode_STOP == 3
Opcode_END == 4

\* the largest value of a u8 (the type of addresses, bytes and Command.length)
U8_MAX == 255
\* the command slots the driver uses: comd0 .. comd6
NumSlots == 7

Instances == {"I2C0", "I2C1"}
Slots == 0 .. (NumSlots - 1)

(***************************************************************************)
(* Fixed-width integer arithmetic                                          *)
(***************************************************************************)
RECURSIVE Pow2(_)
Pow2(n) == IF n = 0 THEN 1 ELSE 2 * Pow2(n - 1)

Bit(x, n) == (x \div Pow2(n)) % 2

RECURSIVE BitOrUpTo(_, _, _)
BitOrUpTo(x, y, n) ==
    IF n = 0 THEN 0
    ELSE BitOrUpTo(x, y, n - 1)
         + (IF Bit(x, n - 1) = 1 \/ Bit(y, n - 1) = 1 THEN Pow2(n - 1) ELSE 0)

\* x | y on 16-bit words
BitOr(x, y) == BitOrUpTo(x, y, 16)
\* x | (1 << n)
SetBit(x, n) == BitOr(x, Pow2(n))
\* x & !(1 << n)
ClearBit(x, n) == IF Bit(x, n) = 1 THEN x - Pow2(n) ELSE x

\* `n as u8`
AsU8(n) == n % (U8_MAX + 1)
\* `a << n` on u8: the bits shifted out are dropped, with or without overflow checks
ShlU8(a, n) == (a * Pow2(n)) % (U8_MAX + 1)
\* `a + b` on u8: a panic when overflow checks are compiled in, a wrap otherwise
AddU8(a, b, checks) ==
    [v |-> (a + b) % (U8_MAX + 1), panic |-> checks /\ a + b > U8_MAX]
\* `a - b` on u8
SubU8(a, b, checks) ==
    [v |-> (a - b) % (U8_MAX + 1), panic |-> checks /\ a - b < 0]

(***************************************************************************)
(* Command encoder                                                         *)
(***************************************************************************)
\* Option<u8>
None == << >>
Some(l) == << l >>

\* Command::new
CommandNew(opcode, ack_value, ack_exp, ack_check_en, length) ==
    [opcode |-> opcode, ack_value |-> ack_value, ack_exp |-> ack_exp,
     ack_check_en |-> ack_check_en, length |-> length]

\* an encoder that puts ack_exp on the bit of ack_check_en
CommandToU16_AckExpOnBit8(c) ==
    LET cmd0 == IF c.length = None THEN 0 ELSE c.length[1]
        cmd1 == IF c.ack_check_en THEN SetBit(cmd0, 8) ELSE ClearBit(cmd0, 8)
        cmd2 == IF c.ack_exp THEN SetBit(cmd1, 8) ELSE ClearBit(cmd1, 8)
        cmd3 == IF c.ack_value THEN SetBit(cmd2, 10) ELSE ClearBit(cmd2, 10)
    IN  BitOr(cmd3, c.opcode * Pow2(11))

\* an encoder that takes an omitted length for a length of one
CommandToU16_OmittedAsOne(c) ==
    LET cmd0 == IF c.length = None THEN 1 ELSE c.length[1]
        cmd1 == IF c.ack_check_en THEN SetBit(cmd0, 8) ELSE ClearBit(cmd0, 8)
        cmd2 == IF c.ack_exp THEN SetBit(cmd1, 9) ELSE ClearBit(cmd1, 9)
        cmd3 == IF c.ack_value THEN SetBit(cmd2, 10) ELSE ClearBit(cmd2, 10)
    IN  BitOr(cmd3, c.opcode * Pow2(11))

\* impl From<Command> for u16
CommandToU16(c) ==
    LET cmd0 == IF c.length = None THEN 0 ELSE c.length[1]
        cmd1 == IF c.ack_check_en THEN SetBit(cmd0, 8) ELSE ClearBit(cmd0, 8)
        cmd2 == IF c.ack_exp THEN SetBit(cmd1, 9) ELSE ClearBit(cmd1, 9)
        cmd3 == IF c.ack_value THEN SetBit(cmd2, 10) ELSE ClearBit(cmd2, 10)
    IN  BitOr(cmd3, c.opcode * Pow2(11))

\* the fields of a command word as the peripheral reads them
WordLength(w) == w % 256
WordAckCheckEn(w) == Bit(w, 8) = 1
WordAckExp(w) == Bit(w, 9) = 1
WordAckValue(w) == Bit(w, 10) = 1
WordOpcode(w) == w \div Pow2(11)

(***************************************************************************)
(* Register and FIFO accesses.  A transfer is the sequence of the accesses *)
(* it performs, in program order; each access is a record                  *)
(*   [t |-> kind, n |-> slot or address, v |-> value]                      *)
(***************************************************************************)
Access(t, n, v) == [t |-> t, n |-> n, v |-> v]

\* a slot update that is not seen by the peripheral as a write of the slot
comd_write_Lost(n, word) == Access("comd_lost", n, word)

\* self.0.comdN.write(|w| w.commandN().bits(word)): the whole register is
\* written, the command field from word and every other field (the done flag
\* among them) from the reset value 0
comd_write(n, word) == Access("comd", n, word)
\* ptr::write_volatile(address as *mut u8, byte)
write_volatile(address, byte) == Access("fifo_write", address, byte)
\* ptr::read_volatile(address as *mut u8), with the byte it returned
read_volatile(address, byte) == Access("fifo_read", address, byte)
\* a trigger by ctr.write instead of ctr.modify: every other bit of ctr cleared
trans_start_set_WholeWrite ==
    Access("ctr", 0, [ms_mode |-> 0, sda_force_out |-> 0, scl_force_out |-> 0,
                      tx_lsb_first |-> 0, rx_lsb_first |-> 0, clk_en |-> 0])

\* self.0.ctr.modify(|_, w| w.trans_start().set_bit())
trans_start_set == Access("trans_start", 0, 1)
\* a poll of comdN that found commandN_done set, which ends the busy-wait on it
comd_done_seen(n) == Access("comd_done", n, 1)

\* a reset_fifo that resets the transmit direction only
reset_fifo_TxOnly == << Access("tx_fifo_rst", 0, 1), Access("tx_fifo_rst", 0, 0) >>

\* I2C::reset_fifo
reset_fifo ==
    << Access("tx_fifo_rst", 0, 1), Access("tx_fifo_rst", 0, 0),
       Access("rx_fifo_rst", 0, 1), Access("rx_fifo_rst", 0, 0) >>

\* the address of the register block behind an instance (Deref of I2C0 / I2C1)
RegisterBlock(self) == IF self = "I2C0" THEN DPORT_I2C0_ADDR ELSE DPORT_I2C1_ADDR

\* I2C::is_i2c0
is_i2c0(self) == RegisterBlock(self) = DPORT_I2C0_ADDR

\* a fifo_addr that takes every instance for I2C0
fifo_addr_AlwaysI2C0(self, operation_type) ==
    (IF operation_type = OperationType_READ THEN DPORT_I2C0_ADDR ELSE AHB_I2C0_ADDR)
        + FIFO_OFFSET

\* I2C::fifo_addr
fifo_addr(self, operation_type) ==
    LET base_addr ==
            IF operation_type = OperationType_READ
            THEN (IF is_i2c0(self) THEN DPORT_I2C0_ADDR ELSE DPORT_I2C1_ADDR)
            ELSE (IF is_i2c0(self) THEN AHB_I2C0_ADDR ELSE AHB_I2C1_ADDR)
    IN  base_addr + FIFO_OFFSET

\* addr << 1 | operation_type as u8
AddressByte(addr, operation_type) == BitOr(ShlU8(addr, 1), operation_type)

\* for byte in bytes { ptr::write_volatile(fifo_addr, *byte) }
PushAll(address, bytes) == [i \in 1 .. Len(bytes) |-> write_volatile(address, bytes[i])]

\* the command words the transfers stage
RSTART_word == CommandToU16(CommandNew(Opcode_RSTART, FALSE, FALSE, FALSE, None))
\* a last slot that holds a start instead of a stop
STOP_word_AsRestart == RSTART_word
STOP_word == CommandToU16(CommandNew(Opcode_STOP, FALSE, FALSE, FALSE, None))

(***************************************************************************)
(* The three transfers.  Each yields its plan:                             *)
(*   acc    the accesses from entry up to the busy-wait, in program order  *)
(*   panic  whether the call panicked there (assert!, or u8 overflow in a  *)
(*          build with overflow checks)                                    *)
(*   waits  the slots whose done flag is busy-waited for, in program order *)
(*   pops   how many bytes are popped into the buffer after the waits      *)
(*   window the FIFO address the pops go through                           *)
(***************************************************************************)
Panicked(acc) == [acc |-> acc, panic |-> TRUE, waits |-> << >>, pops |-> 0, window |-> 0]
Staged(acc, waits, pops, window) ==
    [acc |-> acc, panic |-> FALSE, waits |-> waits, pops |-> pops, window |-> window]

\* the trigger set one access too early, before the last staged access
StartTransmission_BeforeLast(acc) ==
    SubSeq(acc, 1, Len(acc) - 1) \o << trans_start_set, acc[Len(acc)] >>

\* "Start transmission": the trigger, set once everything in acc is staged
StartTransmission(acc) == Append(acc, trans_start_set)

\* the busy-wait of write: comd0, comd1, comd2
write_waits == << 0, 1, 2 >>

\* I2C::write
write(self, addr, bytes, checks) ==
    LET fifo == fifo_addr(self, OperationType_WRITE)
        s0 == reset_fifo
              \o << comd_write(0, RSTART_word) >>
              \o << write_volatile(fifo, AddressByte(addr, OperationType_WRITE)) >>
              \o PushAll(fifo, bytes)
        len == AddU8(1, AsU8(Len(bytes)), checks)
        s1 == s0
              \o << comd_write(1, CommandToU16(
                        CommandNew(Opcode_WRITE, FALSE, FALSE, TRUE, Some(len.v)))) >>
              \o << comd_write(2, STOP_word) >>
    IN  IF len.panic THEN Panicked(s0)
        ELSE Staged(StartTransmission(s1), write_waits, 0, 0)

\* the busy-wait of read: comd0 .. comd4
read_waits == << 0, 1, 2, 3, 4 >>

\* I2C::read after its assert!
read_body(self, addr, buflen, checks) ==
    LET fifo == fifo_addr(self, OperationType_READ)
        s0 == reset_fifo
              \o << comd_write(0, RSTART_word) >>
              \o << write_volatile(fifo, AddressByte(addr, OperationType_READ)) >>
              \o << comd_write(1, CommandToU16(
                        CommandNew(Opcode_WRITE, FALSE, FALSE, TRUE, Some(1)))) >>
        len == SubU8(AsU8(buflen), 1, checks)
        s1 == s0
              \o << comd_write(2, CommandToU16(
                        CommandNew(Opcode_READ, TRUE, FALSE, FALSE, Some(len.v)))) >>
              \o << comd_write(3, CommandToU16(
                        CommandNew(Opcode_READ, TRUE, FALSE, FALSE, Some(1)))) >>
              \o << comd_write(4, STOP_word) >>
    IN  IF len.panic THEN Panicked(s0)
        ELSE Staged(StartTransmission(s1), read_waits, buflen, fifo)

\* read without its assert!
read_NoAssert(self, addr, buflen, checks) == read_body(self, addr, buflen, checks)

\* I2C::read: assert!(buffer.len() > 1) first
read(self, addr, buflen, checks) ==
    IF ~(buflen > 1) THEN Panicked(<< >>)
    ELSE read_body(self, addr, buflen, checks)

\* the busy-wait of write_then_read without its conditional wait on comd6
write_then_read_waits_NoSlot6(buflen) == << 0, 1, 2, 3, 4, 5 >>

\* the busy-wait of write_then_read: comd0 .. comd5, and comd6 if buffer.len() > 1
write_then_read_waits(buflen) ==
    << 0, 1, 2, 3, 4, 5 >> \o (IF buflen > 1 THEN << 6 >> ELSE << >>)

\* I2C::write_then_read
write_then_read(self, addr, bytes, buflen, checks) ==
    LET fifo == fifo_addr(self, OperationType_WRITE)
        s0 == reset_fifo
              \o << comd_write(0, RSTART_word) >>
              \o << write_volatile(fifo, AddressByte(addr, OperationType_WRITE)) >>
              \o PushAll(fifo, bytes)
        wlen == AddU8(1, AsU8(Len(bytes)), checks)
        s1 == s0
              \o << comd_write(1, CommandToU16(
                        CommandNew(Opcode_WRITE, FALSE, TRUE, TRUE, Some(wlen.v)))) >>
              \o << comd_write(2, RSTART_word) >>
              \o << comd_write(3, CommandToU16(
                        CommandNew(Opcode_WRITE, FALSE, TRUE, TRUE, Some(1)))) >>
              \o << write_volatile(fifo, AddressByte(addr, OperationType_READ)) >>
        rlen == SubU8(AsU8(buflen), 1, checks)
        many == s1
              \o << comd_write(4, CommandToU16(
                        CommandNew(Opcode_READ, TRUE, FALSE, FALSE, Some(rlen.v)))) >>
              \o << comd_write(5, CommandToU16(
                        CommandNew(Opcode_READ, FALSE, FALSE, FALSE, Some(1)))) >>
              \o << comd_write(6, STOP_word) >>
        one == s1
              \o << comd_write(4, CommandToU16(
                        CommandNew(Opcode_READ, FALSE, FALSE, FALSE, Some(1)))) >>
              \o << comd_write(5, STOP_word) >>
        window == fifo_addr(self, OperationType_READ)
    IN  IF wlen.panic THEN Panicked(s0)
        ELSE IF buflen > 1
             THEN (IF rlen.panic THEN Panicked(s1)
                   ELSE Staged(StartTransmission(many), write_then_read_waits(buflen),
                               buflen, window))
             ELSE Staged(StartTransmission(one), write_then_read_waits(buflen),
                         buflen, window)

(***************************************************************************)
(* The peripheral.  Per instance: the command slots (command word and done *)
(* flag), the FIFO reset bits of fifo_conf, the trigger bit of ctr, the    *)
(* two FIFOs, the acknowledge-error status, and the command engine, which  *)
(* executes the slots in order from slot 0 once triggered.                 *)
(***************************************************************************)
PeripheralReset ==
    [comd |-> [k \in Slots |-> [command |-> 0, done |-> FALSE]],
     tx_fifo_rst |-> 0, rx_fifo_rst |-> 0, trans_start |-> FALSE,
     txfifo |-> << >>, rxfifo |-> << >>, ack_err |-> FALSE,
     run |-> FALSE, next |-> 0]

\* the instance whose FIFO a bus address reaches, through either window
WindowOwner(address) ==
    IF address \in {DPORT_I2C0_ADDR + FIFO_OFFSET, AHB_I2C0_ADDR + FIFO_OFFSET}
    THEN "I2C0" ELSE "I2C1"
IsFifoWindow(address) ==
    address \in {DPORT_I2C0_ADDR + FIFO_OFFSET, AHB_I2C0_ADDR + FIFO_OFFSET,
                 DPORT_I2C1_ADDR + FIFO_OFFSET, AHB_I2C1_ADDR + FIFO_OFFSET}
IsDportWindow(address) ==
    address \in {DPORT_I2C0_ADDR + FIFO_OFFSET, DPORT_I2C1_ADDR + FIFO_OFFSET}

\* the largest element of a non-empty set of numbers
Max(S) == CHOOSE x \in S : \A y \in S : y <= x

\* the positions of a sequence of accesses that hold an access of kind t
At(acc, t) == {k \in 1 .. Len(acc) : acc[k].t = t}
\* the last of a set of positions, 0 if there is none
Last(K) == IF K = {} THEN 0 ELSE Max(K)

\* The effect on the peripherals of the accesses acc, performed in order by
\* the driver of instance self while the engines are idle:
\*   comd         the slot holds the word last written to it, its done flag clear
\*   tx_fifo_rst  the bit holds the value last written; writing 1 empties the
\*   rx_fifo_rst  FIFO of that direction
\*   fifo_write   the byte is appended to the transmit FIFO of the instance the
\*                address reaches
\*   trans_start  the bit is set and the engine starts at slot 0
ApplyAll(p, self, acc) ==
    [i \in Instances |->
        LET old == p[i]
            mine == i = self
            txrst == IF mine THEN Last({k \in At(acc, "tx_fifo_rst") : acc[k].v = 1}) ELSE 0
            rxrst == IF mine THEN Last({k \in At(acc, "rx_fifo_rst") : acc[k].v = 1}) ELSE 0
            txset == IF mine THEN Last(At(acc, "tx_fifo_rst")) ELSE 0
            rxset == IF mine THEN Last(At(acc, "rx_fifo_rst")) ELSE 0
            numbered == [k \in 1 .. Len(acc) |-> [k |-> k, a |-> acc[k]]]
            pushes == SelectSeq(numbered,
                        LAMBDA e : /\ e.a.t = "fifo_write"
                                   /\ e.k > txrst
                                   /\ IsFifoWindow(e.a.n)
                                   /\ WindowOwner(e.a.n) = i)
            triggered == mine /\ At(acc, "trans_start") # {}
        IN  [comd |-> [s \in Slots |->
                        LET w == IF mine
                                 THEN Last({k \in At(acc, "comd") : acc[k].n = s})
                                 ELSE 0
                        IN  IF w = 0 THEN old.comd[s]
                            ELSE [command |-> acc[w].v, done |-> FALSE]],
             tx_fifo_rst |-> IF txset = 0 THEN old.tx_fifo_rst ELSE acc[txset].v,
             rx_fifo_rst |-> IF rxset = 0 THEN old.rx_fifo_rst ELSE acc[rxset].v,
             trans_start |-> old.trans_start \/ triggered,
             txfifo |-> (IF txrst = 0 THEN old.txfifo ELSE << >>)
                        \o [k \in 1 .. Len(pushes) |-> pushes[k].a.v],
             rxfifo |-> IF rxrst = 0 THEN old.rxfifo ELSE << >>,
             ack_err |-> old.ack_err,
             run |-> old.run \/ triggered,
             next |-> IF triggered THEN 0 ELSE old.next]]

\* the j-th byte the addressed device sends
DeviceByte(j) == (160 + j) % (U8_MAX + 1)
\* what a pop of an empty FIFO, or a pop through the AHB window, may return
JunkBytes == {0, U8_MAX}

(***************************************************************************)
(* Construction: I2C::new and the private helpers it calls                 *)
(***************************************************************************)
\* 80_000_000: the clock the periods are counted in
SOURCE_CLK_FREQ == 80000000
\* the largest u16: half_cycle and tout are u16
U16_MAX == 65535
\* tout = half_cycle * 20
TOUT_FACTOR == 20
\* int_clr.write(bits(0x3FFF))
INT_CLR_ALL == 16383
\* set_filter(Some(7), Some(7))
FILTER_THRESHOLD == 7

\* x as u16
AsU16(n) == n % (U16_MAX + 1)
\* a * b in u16: a panic with overflow checks, a wrap without
MulU16(a, b, checks) ==
    [v |-> (a * b) % (U16_MAX + 1), panic |-> checks /\ a * b > U16_MAX]

\* both instances taken for I2C0 in the shared clock block
PeripheralBit_AlwaysI2C0(self) == 0

\* the bit of the instance in the registers of the shared clock block
PeripheralBit(self) == IF is_i2c0(self) THEN 0 ELSE 1

\* fn reset(&mut self, dport)
reset(self) ==
    << Access("perip_rst_en", PeripheralBit(self), 1),
       Access("perip_rst_en", PeripheralBit(self), 0) >>

\* fn enable(&mut self, dport)
enable(self) ==
    << Access("perip_clk_en", PeripheralBit(self), 1),
       Access("perip_rst_en", PeripheralBit(self), 0) >>

\* the value new gives the control register: bits(0), then master mode,
\* open-drain outputs and most significant bit first
CtrMaster ==
    [ms_mode |-> 1, sda_force_out |-> 1, scl_force_out |-> 1,
     tx_lsb_first |-> 0, rx_lsb_first |-> 0, clk_en |-> 0]

\* the fields of the filter configuration register of each line
sda_filter_cfg == [thres |-> "sda_filter_thres", en |-> "sda_filter_en"]
scl_filter_cfg == [thres |-> "scl_filter_thres", en |-> "scl_filter_en"]

\* the filter of one line: a threshold enables it with that threshold, None
\* disables it and leaves the threshold
line_filter(line, threshold) ==
    IF threshold # None
    THEN << Access(line.thres, 0, threshold[1]), Access(line.en, 0, 1) >>
    ELSE << Access(line.en, 0, 0) >>

\* a set_filter whose second match clears the enable bit of the wrong line
set_filter_SclNoneClearsSda(sda_threshold, scl_threshold) ==
    line_filter(sda_filter_cfg, sda_threshold)
        \o (IF scl_threshold # None
            THEN line_filter(scl_filter_cfg, scl_threshold)
            ELSE line_filter(sda_filter_cfg, None))

\* fn set_filter(&mut self, sda_threshold: Option<u8>, scl_threshold: Option<u8>)
set_filter(sda_threshold, scl_threshold) ==
    line_filter(sda_filter_cfg, sda_threshold) \o line_filter(scl_filter_cfg, scl_threshold)

\* the nine register writes of set_frequency, in program order
TimingWrites(half_cycle, tout) ==
    << Access("scl_low_period", 0, half_cycle),
       Access("scl_high_period", 0, half_cycle),
       Access("sda_hold", 0, half_cycle \div 2),
       Access("sda_sample", 0, half_cycle \div 2),
       Access("scl_rstart_setup", 0, half_cycle),
       Access("scl_stop_setup", 0, half_cycle),
       Access("scl_start_hold", 0, half_cycle),
       Access("scl_stop_hold", 0, half_cycle),
       Access("time_out", 0, tout) >>

\* fn set_frequency(&mut self, freq: u32): the division panics for freq = 0,
\* the quotient is cut to 16 bits, the product is a u16 product; both panics
\* come before the first register write
set_frequency(freq, checks) ==
    IF freq = 0 THEN [acc |-> << >>, panic |-> TRUE]
    ELSE LET half_cycle == AsU16((SOURCE_CLK_FREQ \div freq) \div 2)
             tout == MulU16(half_cycle, TOUT_FACTOR, checks)
         IN  IF tout.panic THEN [acc |-> << >>, panic |-> TRUE]
             ELSE [acc |-> TimingWrites(half_cycle, tout.v), panic |-> FALSE]

\* the clock enable of the instance, set
clk_en_set == Access("clk_en", 0, 1)

\* a constructor that enables the clock before it derives the timing
EnableClocks_BeforeTiming(acc, timing) == Append(acc, clk_en_set) \o timing

\* set_frequency(frequency), then ctr.modify(|_, w| w.clk_en().set_bit())
EnableClocks(acc, timing) == Append(acc \o timing, clk_en_set)

\* I2C::new up to and including set_filter
new_head(self) ==
    reset(self) \o enable(self)
        \o << Access("int_ena", 0, 0),
              Access("int_clr", 0, INT_CLR_ALL),
              Access("ctr", 0, CtrMaster),
              Access("nonfifo_en", 0, 0) >>
        \o reset_fifo
        \o set_filter(Some(FILTER_THRESHOLD), Some(FILTER_THRESHOLD))

\* pub fn new(i2c, pins, frequency, dport) -> Self: the register accesses of
\* the constructor in program order, and whether it panicked before returning
new(self, frequency, checks) ==
    LET timing == set_frequency(frequency, checks)
    IN  IF timing.panic
        THEN [acc |-> new_head(self), panic |-> TRUE]
        ELSE [acc |-> EnableClocks(new_head(self), timing.acc), panic |-> FALSE]

\* the configuration registers of an instance out of hardware reset
RegsReset ==
    [int_ena |-> 0, ctr |-> [CtrMaster EXCEPT !.ms_mode = 0, !.sda_force_out = 0,
                                              !.scl_force_out = 0],
     nonfifo_en |-> 0,
     sda_filter_en |-> 0, sda_filter_thres |-> 0,
     scl_filter_en |-> 0, scl_filter_thres |-> 0,
     scl_low_period |-> 0, scl_high_period |-> 0, sda_hold |-> 0, sda_sample |-> 0,
     scl_rstart_setup |-> 0, scl_stop_setup |-> 0,
     scl_start_hold |-> 0, scl_stop_hold |-> 0, time_out |-> 0]

\* the value of a field after the accesses acc: that of the last write to it
FieldAfter(acc, t, old) ==
    LET k == Last(At(acc, t)) IN IF k = 0 THEN old ELSE acc[k].v

\* the control register after the accesses acc: the last whole write, and the
\* clock enable set by a later modify
CtrAfter(acc, old) ==
    LET whole == FieldAfter(acc, "ctr", old)
        k == Last(At(acc, "clk_en"))
    IN  IF k > Last(At(acc, "ctr")) THEN [whole EXCEPT !.clk_en = acc[k].v] ELSE whole

\* the configuration registers of an instance after the accesses acc
RegsAfter(r, acc) ==
    [f \in DOMAIN r |->
        IF f = "ctr" THEN CtrAfter(acc, r.ctr) ELSE FieldAfter(acc, f, r[f])]

\* the bits of the two instances in the shared clock block after the accesses acc
DportAfter(d, acc) ==
    [f \in DOMAIN d |->
        [b \in DOMAIN d[f] |->
            LET K == {k \in At(acc, f) : acc[k].n = b}
            IN  IF K = {} THEN d[f][b] ELSE acc[Max(K)].v]]

\* the frequencies construction is tried with: zero, one whose half cycle
\* does not fit 16 bits, one whose timeout does not, three usual bus
\* frequencies, half the source clock, and one above it
Frequencies == {0, 100, 10000, 100000, 400000, 1000000, 40000000, 50000000}
\* the frequency the instances of the transfers were constructed with
TransferFrequencies == {100000}
\* how many times in a row set_filter is applied
MaxFilterCalls == 2
\* how many transfers a driver performs one after the other
MaxCalls == 3
\* the thresholds set_filter is tried with
Thresholds == {None, Some(0), Some(3), Some(FILTER_THRESHOLD)}

(***************************************************************************)
(* Inputs                                                                  *)
(***************************************************************************)
Addrs == {80, 144}
ByteVals == {1, 2}
LongBytes(n) == [i \in 1 .. n |-> i % (U8_MAX + 1)]
BytesInputs ==
    UNION {[1 .. n -> ByteVals] : n \in 0 .. MaxLen}
        \cup {LongBytes(U8_MAX), LongBytes(U8_MAX + 1)}
BufLens == (0 .. MaxBuf) \cup {U8_MAX + 1, U8_MAX + 2}

(***************************************************************************)
(* State                                                                   *)
(***************************************************************************)
VARIABLES
    overflow_checks,  \* whether the build panics on integer overflow (debug) or wraps
    i2c,              \* the two peripherals
    pc,               \* where the caller is: idle, wait, pop, done or panicked
    call,             \* the transfer in progress and its arguments
    wi,               \* the index in the plan's waits of the busy-wait in progress
    buffer,           \* the caller's receive buffer
    result,           \* what the call returned: none yet, Ok, Transmit, Receive, or panic
    trace,            \* the accesses of the call so far, in order
    regs,             \* the configuration registers of the two peripherals
    dport,            \* the reset and clock bits of the two peripherals in the clock block
    applied           \* the private helper applied last, with its arguments; or the
                      \* driver in use and the number of its calls so far

vars ==
    << overflow_checks, i2c, pc, call, wi, buffer, result, trace, regs, dport, applied >>

\* what the engine and the busy-waits leave alone
config == << regs, dport, applied >>

\* no transfer in progress
NoCall ==
    [op |-> "none", self |-> "I2C0", addr |-> 0, bytes |-> << >>, buflen |-> 0,
     waits |-> << >>, pops |-> 0, window |-> 0]

\* a transfer and its arguments, with what it does after the trigger
Transfer(op, self, addr, bytes, buflen, plan) ==
    [op |-> op, self |-> self, addr |-> addr, bytes |-> bytes, buflen |-> buflen,
     waits |-> plan.waits, pops |-> plan.pops, window |-> plan.window]

\* no private helper applied
NoHelper == [op |-> "none"]

\* the bits of the two instances in the shared clock block, all clear
DportReset == [f \in {"perip_rst_en", "perip_clk_en"} |-> [b \in {0, 1} |-> 0]]

\* the transfers start with both instances constructed, at a frequency the
\* constructor completes for in either build
Init ==
    /\ overflow_checks \in BOOLEAN
    /\ i2c = [i \in Instances |-> PeripheralReset]
    /\ pc = "idle"
    /\ call = NoCall
    /\ wi = 1
    /\ buffer = << >>
    /\ result = "none"
    /\ trace = << >>
    /\ \E frequency \in TransferFrequencies :
        /\ regs = [i \in Instances |-> RegsAfter(RegsReset, new(i, frequency, FALSE).acc)]
        /\ dport = DportAfter(DportReset, new("I2C0", frequency, FALSE).acc
                                              \o new("I2C1", frequency, FALSE).acc)
    /\ applied = NoHelper

\* entry of a transfer up to its busy-wait: everything it stages, and the
\* trigger; or up to its panic
Enter(op, self, addr, bytes, buflen, plan) ==
    /\ pc = "idle"
    /\ call' = Transfer(op, self, addr, bytes, buflen, plan)
    /\ trace' = plan.acc
    /\ i2c' = ApplyAll(i2c, self, plan.acc)
    /\ pc' = IF plan.panic THEN "panicked" ELSE "wait"
    /\ result' = IF plan.panic THEN "panic" ELSE "none"
    /\ wi' = 1
    /\ buffer' = [k \in 1 .. buflen |-> 0]
    /\ regs' = [regs EXCEPT ![self] = RegsAfter(@, plan.acc)]
    /\ dport' = DportAfter(dport, plan.acc)
    /\ UNCHANGED << overflow_checks, applied >>

CallWrite ==
    \E self \in Instances, addr \in Addrs, bytes \in BytesInputs :
        Enter("write", self, addr, bytes, 0, write(self, addr, bytes, overflow_checks))

CallRead ==
    \E self \in Instances, addr \in Addrs, buflen \in BufLens :
        Enter("read", self, addr, << >>, buflen, read(self, addr, buflen, overflow_checks))

CallWriteThenRead ==
    \E self \in Instances, addr \in Addrs, bytes \in BytesInputs, buflen \in BufLens :
        Enter("write_then_read", self, addr, bytes, buflen,
              write_then_read(self, addr, bytes, buflen, overflow_checks))

\* a busy-wait that gives up: it ends whether or not the done flag is set
WaitOver_TimedOut(done) == TRUE

\* while self.0.comdN.read().commandN_done().bit() != true {}
WaitOver(done) == done = TRUE

\* one busy-wait ends: the poll of the awaited slot found its done flag set
Poll ==
    /\ pc = "wait"
    /\ WaitOver(i2c[call.self].comd[call.waits[wi]].done)
    /\ trace' = Append(trace, comd_done_seen(call.waits[wi]))
    /\ wi' = wi + 1
    /\ pc' = IF wi < Len(call.waits) THEN "wait" ELSE "pop"
    /\ UNCHANGED << overflow_checks, i2c, call, buffer, result, config >>

\* a completion path that inspects the acknowledge status
CompletionResult_AckChecked(ack_err) == IF ack_err THEN "Transmit" ELSE "Ok"

\* Ok(()): the value every transfer returns once its waits are over
CompletionResult(ack_err) == "Ok"

\* the bytes n pops through the window at address yield: the head of the
\* receive FIFO through the DPORT window, anything when the FIFO is empty or
\* the pop goes through the AHB window
Popped(address, rx, n, junk) ==
    [k \in 1 .. n |->
        IF IsDportWindow(address) /\ k <= Len(rx) THEN rx[k] ELSE junk]

\* the receive FIFO after n pops through the window at address
AfterPops(address, rx, n) ==
    IF IsDportWindow(address) THEN SubSeq(rx, n + 1, Len(rx)) ELSE rx

ReadVolatiles(address, got) == [k \in 1 .. Len(got) |-> read_volatile(address, got[k])]

\* a loop that fills the buffer from its end
FillBuffer_Backwards(got) == [k \in 1 .. Len(got) |-> got[Len(got) + 1 - k]]

\* for byte in buffer.iter_mut() { *byte = ... }: the k-th byte popped is
\* stored at index k
FillBuffer(got) == got

\* for byte in buffer.iter_mut() { *byte = ptr::read_volatile(fifo_addr) }, then Ok(())
PopAndReturn ==
    /\ pc = "pop"
    /\ \E junk \in JunkBytes :
        LET got == Popped(call.window, i2c[WindowOwner(call.window)].rxfifo,
                          call.pops, junk)
        IN  /\ buffer' = FillBuffer(got)
            /\ trace' = trace \o ReadVolatiles(call.window, got)
    /\ i2c' = IF call.pops > 0
              THEN [i2c EXCEPT ![WindowOwner(call.window)].rxfifo =
                        AfterPops(call.window, @, call.pops)]
              ELSE i2c
    /\ result' = CompletionResult(i2c[call.self].ack_err)
    /\ pc' = "done"
    /\ UNCHANGED << overflow_checks, call, wi, config >>

(***************************************************************************)
(* The command engine of the peripheral                                    *)
(***************************************************************************)
\* the engine of instance i executes the command in its next slot: a write
\* sends `length` bytes of the transmit FIFO, a read receives `length` bytes
\* into the receive FIFO, stop and end finish the transaction
Executed(p, nack) ==
    LET w == p.comd[p.next].command
        op == WordOpcode(w)
        n == WordLength(w)
    IN  [p EXCEPT
            !.comd[p.next].done = TRUE,
            !.txfifo = IF op = Opcode_WRITE THEN SubSeq(@, n + 1, Len(@)) ELSE @,
            !.rxfifo = IF op = Opcode_READ
                       THEN @ \o [k \in 1 .. n |-> DeviceByte(Len(p.rxfifo) + k)]
                       ELSE @,
            !.ack_err = @ \/ nack,
            !.run = ~(op \in {Opcode_STOP, Opcode_END}) /\ p.next + 1 < NumSlots,
            !.next = p.next + 1]

HwExecute ==
    \E i \in Instances :
        /\ i2c[i].run
        /\ i2c' = [i2c EXCEPT ![i] = Executed(i2c[i], FALSE)]
        /\ UNCHANGED << overflow_checks, pc, call, wi, buffer, result, trace, config >>

\* a byte of a write command is not acknowledged as expected: the
\* acknowledge-error status is raised and the transaction goes on
HwNackContinue ==
    \E i \in Instances :
        /\ i2c[i].run
        /\ WordOpcode(i2c[i].comd[i2c[i].next].command) = Opcode_WRITE
        /\ i2c' = [i2c EXCEPT ![i] = Executed(i2c[i], TRUE)]
        /\ UNCHANGED << overflow_checks, pc, call, wi, buffer, result, trace, config >>

\* the same with the acknowledge check enabled, the engine giving up: the
\* command's done flag is never set
HwNackHalt ==
    \E i \in Instances :
        /\ i2c[i].run
        /\ WordOpcode(i2c[i].comd[i2c[i].next].command) = Opcode_WRITE
        /\ WordAckCheckEn(i2c[i].comd[i2c[i].next].command)
        /\ i2c' = [i2c EXCEPT ![i].ack_err = TRUE, ![i].run = FALSE]
        /\ UNCHANGED << overflow_checks, pc, call, wi, buffer, result, trace, config >>

Next ==
    \/ CallWrite
    \/ CallRead
    \/ CallWriteThenRead
    \/ Poll
    \/ PopAndReturn
    \/ HwExecute
    \/ HwNackContinue
    \/ HwNackHalt

Spec == Init /\ [][Next]_vars

(***************************************************************************)
(* Construction, one register access at a time.  Each peripheral is moved  *)
(* into at most one driver; a panic ends the program.                      *)
(***************************************************************************)
\* a construction and its arguments, with the accesses it performs; taken are
\* the instances moved into a constructor so far
Construction(self, frequency, plan, taken) ==
    [op |-> "new", self |-> self, frequency |-> frequency,
     acc |-> plan.acc, panic |-> plan.panic, taken |-> taken]

NotConstructing ==
    [op |-> "none", self |-> "I2C0", frequency |-> 0,
     acc |-> << >>, panic |-> FALSE, taken |-> {}]

InitNew ==
    /\ overflow_checks \in BOOLEAN
    /\ i2c = [i \in Instances |-> PeripheralReset]
    /\ pc = "idle"
    /\ call = NotConstructing
    /\ wi = 1
    /\ buffer = << >>
    /\ result = "none"
    /\ trace = << >>
    /\ regs = [i \in Instances |-> RegsReset]
    /\ dport \in [{"perip_rst_en", "perip_clk_en"} -> [{0, 1} -> {0, 1}]]
    /\ applied = NoHelper

\* I2C::new(i2c, pins, frequency, dport) is called
CallNew ==
    \E self \in Instances \ call.taken, frequency \in Frequencies :
        /\ pc \in {"idle", "constructed"}
        /\ call' = Construction(self, frequency, new(self, frequency, overflow_checks),
                                call.taken \cup {self})
        /\ pc' = "new"
        /\ wi' = 1
        /\ trace' = << >>
        /\ result' = "none"
        /\ UNCHANGED << overflow_checks, i2c, buffer, regs, dport, applied >>

\* the next register access of the constructor; after the last one it returns
\* the driver, or panics
NewStep ==
    /\ pc = "new"
    /\ LET a == call.acc[wi]
           last == wi = Len(call.acc)
       IN  /\ trace' = Append(trace, a)
           /\ i2c' = ApplyAll(i2c, call.self, << a >>)
           /\ regs' = [regs EXCEPT ![call.self] = RegsAfter(@, << a >>)]
           /\ dport' = DportAfter(dport, << a >>)
           /\ pc' = IF ~last THEN "new" ELSE IF call.panic THEN "panicked" ELSE "constructed"
           /\ result' = IF ~last THEN "none" ELSE IF call.panic THEN "panic" ELSE "driver"
    /\ wi' = wi + 1
    /\ UNCHANGED << overflow_checks, call, buffer, applied >>

NextNew ==
    \/ CallNew
    \/ NewStep

SpecNew == InitNew /\ [][NextNew]_vars

(***************************************************************************)
(* set_filter, applied with any thresholds to any filter configuration     *)
(***************************************************************************)
InitFilter ==
    /\ overflow_checks \in BOOLEAN
    /\ i2c = [i \in Instances |-> PeripheralReset]
    /\ pc = "idle"
    /\ call = NoCall
    /\ wi = 1
    /\ buffer = << >>
    /\ result = "none"
    /\ trace = << >>
    /\ regs = [i \in Instances |-> RegsReset]
    /\ dport = DportReset
    /\ applied = [op |-> "none", calls |-> 0]

\* self.set_filter(sda_threshold, scl_threshold)
SetFilter ==
    \E self \in Instances, sda_threshold \in Thresholds, scl_threshold \in Thresholds :
        /\ applied.calls < MaxFilterCalls
        /\ trace' = set_filter(sda_threshold, scl_threshold)
        /\ regs' = [regs EXCEPT ![self] = RegsAfter(@, trace')]
        /\ applied' = [op |-> "set_filter", calls |-> applied.calls + 1, self |-> self,
                       sda_threshold |-> sda_threshold,
                       scl_threshold |-> scl_threshold, before |-> regs[self]]
        /\ UNCHANGED << overflow_checks, i2c, pc, call, wi, buffer, result, dport >>

NextFilter == SetFilter

SpecFilter == InitFilter /\ [][NextFilter]_vars

(***************************************************************************)
(* The command encoder, applied once to any command                        *)
(***************************************************************************)
Opcodes == {Opcode_RSTART, Opcode_WRITE, Opcode_READ, Opcode_STOP, Opcode_END}
Lengths == {None} \cup {Some(l) : l \in 0 .. U8_MAX}

InitCommand ==
    /\ overflow_checks \in BOOLEAN
    /\ i2c = [i \in Instances |-> PeripheralReset]
    /\ pc = "idle"
    /\ call = NoCall
    /\ wi = 1
    /\ buffer = << >>
    /\ result = "none"
    /\ trace = << >>
    /\ regs = [i \in Instances |-> RegsReset]
    /\ dport = DportReset
    /\ \E opcode \in Opcodes, ack_value \in BOOLEAN, ack_exp \in BOOLEAN,
          ack_check_en \in BOOLEAN, length \in Lengths :
        applied = [op |-> "command",
                   cmd |-> CommandNew(opcode, ack_value, ack_exp, ack_check_en, length),
                   word |-> 0]

\* let word: u16 = command.into()
Encode ==
    /\ applied.op = "command"
    /\ applied' = [applied EXCEPT !.op = "encode", !.word = CommandToU16(applied.cmd)]
    /\ UNCHANGED << overflow_checks, i2c, pc, call, wi, buffer, result, trace,
                    regs, dport >>

NextCommand == Encode

SpecCommand == InitCommand /\ [][NextCommand]_vars

(***************************************************************************)
(* The transfers with the caller and the engine running on: the program    *)
(* keeps executing its busy-wait and its pop loop, and the engine of a     *)
(* triggered peripheral keeps executing commands.                          *)
(***************************************************************************)
SpecLive ==
    Spec /\ WF_vars(Poll) /\ WF_vars(PopAndReturn) /\ WF_vars(HwExecute)

(***************************************************************************)
(* The life of one driver: construction, then up to MaxCalls transfers one *)
(* after the other, each starting from what the earlier ones left in the   *)
(* slots and the FIFOs.  The other instance is never touched by a call.    *)
(***************************************************************************)
\* the transfers of a driver are tried with one address, with no or one
\* outgoing byte, and with buffers of every length up to three
SeqAddrs == {80}
SeqBytes == {<< >>, << 1 >>}
SeqBufLens == {0, 1, 2, 3}

InitDriver ==
    /\ overflow_checks \in BOOLEAN
    /\ i2c = [i \in Instances |-> PeripheralReset]
    /\ pc = "idle"
    /\ call = NotConstructing
    /\ wi = 1
    /\ buffer = << >>
    /\ result = "none"
    /\ trace = << >>
    /\ regs = [i \in Instances |-> RegsReset]
    /\ dport = DportReset
    /\ applied = [op |-> "none", calls |-> 0]

\* let mut i2c = I2C::new(peripheral, pins, frequency, dport)
Construct ==
    \E self \in Instances, frequency \in TransferFrequencies :
        /\ pc = "idle"
        /\ applied.op = "none"
        /\ call' = Construction(self, frequency, new(self, frequency, overflow_checks),
                                {self})
        /\ applied' = [op |-> "driver", self |-> self, calls |-> 0]
        /\ pc' = "new"
        /\ wi' = 1
        /\ trace' = << >>
        /\ result' = "none"
        /\ UNCHANGED << overflow_checks, i2c, buffer, regs, dport >>

\* the caller goes on after the constructor or a transfer has returned
Resume ==
    /\ pc \in {"constructed", "done"}
    /\ applied.calls < MaxCalls
    /\ applied' = [applied EXCEPT !.calls = @ + 1]
    /\ pc' = "idle"
    /\ wi' = 1
    /\ trace' = << >>
    /\ buffer' = << >>
    /\ result' = "none"
    /\ UNCHANGED << overflow_checks, i2c, call, regs, dport >>

DriverWrite ==
    \E addr \in SeqAddrs, bytes \in SeqBytes :
        /\ applied.op = "driver"
        /\ Enter("write", applied.self, addr, bytes, 0,
                 write(applied.self, addr, bytes, overflow_checks))

DriverRead ==
    \E addr \in SeqAddrs, buflen \in SeqBufLens :
        /\ applied.op = "driver"
        /\ Enter("read", applied.self, addr, << >>, buflen,
                 read(applied.self, addr, buflen, overflow_checks))

DriverWriteThenRead ==
    \E addr \in SeqAddrs, bytes \in SeqBytes, buflen \in SeqBufLens :
        /\ applied.op = "driver"
        /\ Enter("write_then_read", applied.self, addr, bytes, buflen,
                 write_then_read(applied.self, addr, bytes, buflen, overflow_checks))

NextDriver ==
    \/ Construct
    \/ NewStep
    \/ Resume
    \/ DriverWrite
    \/ DriverRead
    \/ DriverWriteThenRead
    \/ Poll
    \/ PopAndReturn
    \/ HwExecute
    \/ HwNackContinue
    \/ HwNackHalt

SpecDriver == InitDriver /\ [][NextDriver]_vars

(***************************************************************************)
(* Properties of the transfers                                             *)
(***************************************************************************)
\* the command-slot writes of a call, in program order
Comds(tr) == SelectSeq(tr, LAMBDA a : a.t = "comd")
\* the bytes a call pushed into the FIFO, in program order
PushedBytes(tr) ==
    LET w == SelectSeq(tr, LAMBDA a : a.t = "fifo_write")
    IN  [k \in 1 .. Len(w) |-> w[k].v]
\* the slots whose done flag a call has seen set, in the order it saw them
DoneSeen(tr) ==
    LET d == SelectSeq(tr, LAMBDA a : a.t = "comd_done")
    IN  [k \in 1 .. Len(d) |-> d[k].n]

\* a call has been entered
Entered == pc # "idle"
\* a slot write of slot n that holds a start, a stop, a write or a read command
IsStart(a, n) == a.n = n /\ WordOpcode(a.v) = Opcode_RSTART /\ WordLength(a.v) = 0
IsStop(a, n) == a.n = n /\ WordOpcode(a.v) = Opcode_STOP /\ WordLength(a.v) = 0
IsWrite(a, n, len) ==
    a.n = n /\ WordOpcode(a.v) = Opcode_WRITE /\ WordAckCheckEn(a.v) /\ WordLength(a.v) = len
IsRead(a, n, ack_value, len) ==
    /\ a.n = n
    /\ WordOpcode(a.v) = Opcode_READ
    /\ WordAckValue(a.v) = ack_value
    /\ WordLength(a.v) = len
\* the address byte: the address shifted left by one, the direction in the low bit
ShiftedAddress(addr, low) == ((2 * addr) % 256) + low

\* the slots a transaction consumes: 3 for write, 5 for read, 6 or 7 for write_then_read
Consumed(c) ==
    IF c.op = "write" THEN 3
    ELSE IF c.op = "read" THEN 5
    ELSE IF c.buflen > 1 THEN 7 ELSE 6
\* the bytes a transaction sends: the address byte, the outgoing bytes, and for
\* write_then_read the address byte again
Outgoing(c) ==
    IF c.op = "write" THEN 1 + Len(c.bytes)
    ELSE IF c.op = "read" THEN 1
    ELSE 2 + Len(c.bytes)

\* C1: for every address and every byte sequence, write stages exactly three
\* slots, start, write (ack_check_en, length 1 + len(bytes)) and stop, and pushes
\* the address byte with low bit 0 followed by the bytes in order.
C1_WriteStagesThreeSlots ==
    (Entered /\ call.op = "write") =>
        /\ Len(Comds(trace)) = 3
        /\ IsStart(Comds(trace)[1], 0)
        /\ IsWrite(Comds(trace)[2], 1, 1 + Len(call.bytes))
        /\ IsStop(Comds(trace)[3], 2)
        /\ PushedBytes(trace) = << ShiftedAddress(call.addr, 0) >> \o call.bytes

\* C2: in every transfer on either instance every push goes through the
\* write-path window of that instance and every pop through its read-path window.
C2_PushWritePathPopReadPath ==
    \A k \in 1 .. Len(trace) :
        /\ trace[k].t = "fifo_write"
               => trace[k].n = fifo_addr(call.self, OperationType_WRITE)
        /\ trace[k].t = "fifo_read"
               => trace[k].n = fifo_addr(call.self, OperationType_READ)

\* C3: for every buffer of length >= 2, read stages exactly five slots, start,
\* write (ack_check_en, length 1), read (ack_value, length len(buffer) - 1),
\* read (ack_value, length 1) and stop, and pushes only the address byte with
\* low bit 1.
C3_ReadStagesFiveSlots ==
    (Entered /\ call.op = "read" /\ call.buflen >= 2) =>
        /\ Len(Comds(trace)) = 5
        /\ IsStart(Comds(trace)[1], 0)
        /\ IsWrite(Comds(trace)[2], 1, 1)
        /\ IsRead(Comds(trace)[3], 2, TRUE, call.buflen - 1)
        /\ IsRead(Comds(trace)[4], 3, TRUE, 1)
        /\ IsStop(Comds(trace)[5], 4)
        /\ PushedBytes(trace) = << ShiftedAddress(call.addr, 1) >>

\* C4: write_then_read with a buffer of length 1 stages six slots, slot 4 a read
\* (ack_value false, length 1) and slot 5 stop; with a buffer of length >= 2 it
\* stages seven, slot 4 a read (ack_value true, length len(buffer) - 1), slot 5
\* a read (ack_value false, length 1) and slot 6 stop.
C4_WriteThenReadTail ==
    (Entered /\ call.op = "write_then_read") =>
        /\ call.buflen = 1 =>
            /\ Len(Comds(trace)) = 6
            /\ IsRead(Comds(trace)[5], 4, FALSE, 1)
            /\ IsStop(Comds(trace)[6], 5)
        /\ call.buflen >= 2 =>
            /\ Len(Comds(trace)) = 7
            /\ IsRead(Comds(trace)[5], 4, TRUE, call.buflen - 1)
            /\ IsRead(Comds(trace)[6], 5, FALSE, 1)
            /\ IsStop(Comds(trace)[7], 6)

\* C5: for every address and bytes, write_then_read stages start, write
\* (ack_check_en, length 1 + len(bytes)), start, write (ack_check_en, length 1)
\* in slots 0..3, and the FIFO receives the address byte with low bit 0, the
\* bytes in order, then the address byte with low bit 1.
C5_WriteThenReadHead ==
    (Entered /\ call.op = "write_then_read") =>
        /\ Len(Comds(trace)) >= 4
        /\ IsStart(Comds(trace)[1], 0)
        /\ IsWrite(Comds(trace)[2], 1, 1 + Len(call.bytes))
        /\ IsStart(Comds(trace)[3], 2)
        /\ IsWrite(Comds(trace)[4], 3, 1)
        /\ PushedBytes(trace) =
                << ShiftedAddress(call.addr, 0) >> \o call.bytes
                    \o << ShiftedAddress(call.addr, 1) >>

C7_WaitsInSlotOrder ==
    /\ Len(DoneSeen(trace)) <= Consumed(call)
    /\ \A j \in 1 .. Len(DoneSeen(trace)) :
        /\ DoneSeen(trace)[j] = j - 1
        /\ i2c[call.self].comd[j - 1].done
    /\ pc = "wait" => call.waits[wi] = Len(DoneSeen(trace))
    /\ result = "Ok" => Len(DoneSeen(trace)) = Consumed(call)

\* C7 is met by a write_then_read that returned after its seven waits.
C7_Witness ==
    /\ result = "Ok"
    /\ call.op = "write_then_read"
    /\ call.buflen > 1
    /\ DoneSeen(trace) = << 0, 1, 2, 3, 4, 5, 6 >>

\* C8: there is no timeout: while the done flag of the awaited slot is not set,
\* the call stays in that busy-wait; it neither returns nor performs any further
\* register write or FIFO access.
C8_NoTimeout ==
    [][(pc = "wait" /\ ~i2c[call.self].comd[call.waits[wi]].done)
            => /\ pc' = "wait"
               /\ wi' = wi
               /\ trace' = trace
               /\ result' = "none"
               /\ buffer' = buffer]_vars

\* C8 is met where the engine gave up on a command after a missing
\* acknowledge: the awaited flag is never set and the call is blocked for good.
C8_Witness ==
    /\ pc = "wait"
    /\ ~i2c[call.self].run
    /\ i2c[call.self].ack_err
    /\ ~i2c[call.self].comd[call.waits[wi]].done

\* C9: neither error kind is ever produced: a call that returns returns
\* success, whatever acknowledge status the bus produced.
C9_NeverAnError ==
    /\ result \notin {"Transmit", "Receive"}
    /\ pc = "done" => result = "Ok"

\* C9 is met by a call that returned although an acknowledge error was raised.
C9_Witness == pc = "done" /\ result = "Ok" /\ i2c[call.self].ack_err

\* C10 as claimed: read with a buffer of fewer than 2 bytes returns a typed
\* error before any hardware access.
C10_ShortReadTypedError ==
    (Entered /\ call.op = "read" /\ call.buflen < 2) =>
        /\ pc = "done"
        /\ result \in {"Transmit", "Receive"}
        /\ trace = << >>
        /\ i2c = [i \in Instances |-> PeripheralReset]

\* C10, amended: read with a buffer of fewer than 2 bytes is rejected at the
\* boundary by a failed assertion, a panic and not an error returned to the
\* caller, before any command slot is written, any byte is pushed, the FIFO is
\* reset or the trigger is set.
C10_ShortReadPanicsUntouched ==
    (Entered /\ call.op = "read" /\ call.buflen < 2) =>
        /\ pc = "panicked"
        /\ result = "panic"
        /\ trace = << >>
        /\ i2c = [i \in Instances |-> PeripheralReset]

\* C10 is met by a read into a buffer of one byte.
C10_Witness == call.op = "read" /\ call.buflen = 1 /\ pc = "panicked"

(***************************************************************************)
(* Properties of construction                                              *)
(***************************************************************************)
\* a frequency the timing derivation is specified for: positive, at most half the clock
InRange(frequency) == frequency > 0 /\ 2 * frequency <= SOURCE_CLK_FREQ
\* (80,000,000 / F) / 2, in unbounded integers
HalfCycle(frequency) == (SOURCE_CLK_FREQ \div frequency) \div 2
\* the constructor has left set_frequency behind it
TimingWritten == call.op = "new" /\ At(trace, "time_out") # {}
\* the constructor has ended, with a driver or with a panic
ConstructionOver == call.op = "new" /\ pc \in {"constructed", "panicked"}

\* C11: a construction with an out-of-range frequency (0, or above half the
\* 80,000,000 clock) fails: it returns no driver, and it does not set the
\* clock-enable bit over timing registers derived from that frequency
C11_OutOfRangeFrequencyFails ==
    (call.op = "new" /\ ~InRange(call.frequency)) =>
        /\ result # "driver"
        /\ regs[call.self].ctr.clk_en = 0

\* C12: the timing derivation writes, for half_cycle = (80,000,000 / F) / 2,
\* half_cycle to both period registers and the four setup and hold registers
\* and half_cycle / 2 to sda_hold and sda_sample; for F = 100,000 these are
\* 400 and 200, and the timeout is 8000
C12_TimingDerivation ==
    (TimingWritten /\ InRange(call.frequency)) =>
        LET r == regs[call.self]
            half_cycle == HalfCycle(call.frequency)
        IN  /\ r.scl_low_period = half_cycle
            /\ r.scl_high_period = half_cycle
            /\ r.sda_hold = half_cycle \div 2
            /\ r.sda_sample = r.scl_high_period \div 2
            /\ r.scl_rstart_setup = half_cycle
            /\ r.scl_stop_setup = half_cycle
            /\ r.scl_start_hold = half_cycle
            /\ r.scl_stop_hold = half_cycle
            /\ call.frequency = 100000 =>
                /\ half_cycle = 400
                /\ r.scl_low_period = 400 /\ r.scl_high_period = 400
                /\ r.sda_hold = 200 /\ r.sda_sample = 200
                /\ r.scl_rstart_setup = 400 /\ r.scl_start_hold = 400
                /\ r.time_out = 8000

\* C13: for every frequency F with 0 < F <= 40,000,000 the construction
\* writes exactly 20 * ((80,000,000 / F) / 2) to the timeout register and
\* exactly (80,000,000 / F) / 2 to the period registers: nothing is cut to 16
\* bits, and the 16-bit product neither wraps nor overflows
C13_TimingExactInSixteenBits ==
    (ConstructionOver /\ InRange(call.frequency)) =>
        /\ pc = "constructed"
        /\ regs[call.self].time_out = TOUT_FACTOR * HalfCycle(call.frequency)
        /\ regs[call.self].scl_low_period = HalfCycle(call.frequency)
        /\ regs[call.self].scl_high_period = HalfCycle(call.frequency)

\* C20: during construction the clock-enable bit is set last: only after the
\* control register was written whole, both FIFO directions were reset, both
\* filters were configured and all nine timing registers were written; no
\* register is written after it, and no construction that stops short sets it
C20_ClockEnableLast ==
    call.op = "new" =>
        /\ \A k \in At(trace, "clk_en") :
            /\ k = Len(trace)
            /\ trace[k].v = 1
            /\ \A t \in {"ctr", "tx_fifo_rst", "rx_fifo_rst", "sda_filter_en",
                         "scl_filter_en", "scl_low_period", "scl_high_period",
                         "sda_hold", "sda_sample", "scl_rstart_setup",
                         "scl_stop_setup", "scl_start_hold", "scl_stop_hold",
                         "time_out"} :
                \E j \in At(trace, t) : j < k
            /\ \E j \in At(trace, "tx_fifo_rst") : trace[j].v = 1
            /\ \E j \in At(trace, "rx_fifo_rst") : trace[j].v = 1
        /\ (pc = "constructed") = (At(trace, "clk_en") # {})
        /\ (regs[call.self].ctr.clk_en = 1) = (pc = "constructed")

\* a constructor has returned a driver for a 100 kHz bus
C20_Witness ==
    /\ call.op = "new"
    /\ pc = "constructed"
    /\ call.frequency = 100000
    /\ regs[call.self].ctr.clk_en = 1
    /\ regs[call.self].ctr.ms_mode = 1
    /\ regs[call.self].time_out = 8000

(***************************************************************************)
(* Properties of set_filter                                                *)
(***************************************************************************)
\* what set_filter leaves in the filter of one line
FilterOf(line, threshold, r, before) ==
    IF threshold # None
    THEN r[line.en] = 1 /\ r[line.thres] = threshold[1]
    ELSE r[line.en] = 0 /\ r[line.thres] = before[line.thres]

\* C19: set_filter treats the two lines independently: a supplied threshold
\* enables the filter of its line with that threshold, an absent one disables
\* it, whatever the other argument; (Some(7), None) leaves the data line
\* enabled at 7 and the clock line disabled, (None, None) both disabled; no
\* other register changes
C19_FilterLinesIndependent ==
    applied.op = "set_filter" =>
        LET r == regs[applied.self]
            before == applied.before
        IN  /\ FilterOf(sda_filter_cfg, applied.sda_threshold, r, before)
            /\ FilterOf(scl_filter_cfg, applied.scl_threshold, r, before)
            /\ (applied.sda_threshold = Some(7) /\ applied.scl_threshold = None) =>
                r.sda_filter_en = 1 /\ r.sda_filter_thres = 7 /\ r.scl_filter_en = 0
            /\ (applied.sda_threshold = None /\ applied.scl_threshold = None) =>
                r.sda_filter_en = 0 /\ r.scl_filter_en = 0
            /\ \A f \in DOMAIN r \ {"sda_filter_en", "sda_filter_thres",
                                    "scl_filter_en", "scl_filter_thres"} :
                r[f] = before[f]

\* set_filter(Some(7), None) was applied to a configuration that had the clock
\* line enabled and another threshold on the data line
C19_Witness ==
    /\ applied.op = "set_filter"
    /\ applied.sda_threshold = Some(7)
    /\ applied.scl_threshold = None
    /\ applied.before.scl_filter_en = 1
    /\ applied.before.scl_filter_thres = 3
    /\ applied.before.sda_filter_thres = 3
    /\ regs[applied.self].sda_filter_thres = 7
    /\ regs[applied.self].scl_filter_thres = 3

(***************************************************************************)
(* Properties of the command encoder                                       *)
(***************************************************************************)
\* an encoded command that was given a length
EncodedWithLength == applied.op = "encode" /\ applied.cmd.length # None
\* the commands that differ from c in one field: another opcode, one flag
\* flipped, or the length one up or one down
Neighbours(c) ==
    ({[c EXCEPT !.opcode = o] : o \in Opcodes}
        \cup {[c EXCEPT !.ack_value = ~@], [c EXCEPT !.ack_exp = ~@],
               [c EXCEPT !.ack_check_en = ~@]}
        \cup {[c EXCEPT !.length = Some(l)] :
                l \in {c.length[1] - 1, c.length[1] + 1} \cap (0 .. U8_MAX)}) \ {c}

\* C15: the encoding round-trips: for every opcode, every combination of the
\* three flags and every length in 0..255, bits 0-7 of the 16-bit word are the
\* length, bit 8 ack_check_en, bit 9 ack_exp, bit 10 ack_value, bits 11 and up
\* the opcode; and different commands have different words
C15_EncodingRoundTrips ==
    EncodedWithLength =>
        /\ applied.word \in 0 .. U16_MAX
        /\ WordLength(applied.word) = applied.cmd.length[1]
        /\ WordAckCheckEn(applied.word) = applied.cmd.ack_check_en
        /\ WordAckExp(applied.word) = applied.cmd.ack_exp
        /\ WordAckValue(applied.word) = applied.cmd.ack_value
        /\ WordOpcode(applied.word) = applied.cmd.opcode
        /\ \A other \in Neighbours(applied.cmd) : CommandToU16(other) # applied.word

\* a read command with all flags set and the longest length was encoded
C15_Witness ==
    /\ EncodedWithLength
    /\ applied.cmd = CommandNew(Opcode_READ, TRUE, TRUE, TRUE, Some(U8_MAX))
    /\ applied.word = 6143

\* a start, stop or end command was encoded
EncodedNoData ==
    applied.op = "encode" /\ applied.cmd.opcode \in {Opcode_RSTART, Opcode_STOP, Opcode_END}

\* C16 as stated: for start, stop and end the length field of the encoded
\* word is zero whatever length the command was given
C16_LengthAlwaysZero == EncodedNoData => WordLength(applied.word) = 0

\* C16: for start, stop and end the length field of the encoded word is zero
\* when the length is omitted, and is the given length when one is given
C16_OmittedLengthIsZero ==
    EncodedNoData =>
        WordLength(applied.word) =
            IF applied.cmd.length = None THEN 0 ELSE applied.cmd.length[1]

\* a stop command without a length was encoded
C16_Witness ==
    /\ EncodedNoData
    /\ applied.cmd.opcode = Opcode_STOP
    /\ applied.cmd.length = None
    /\ applied.word = STOP_word

(***************************************************************************)
(* Further properties of the transfers                                     *)
(***************************************************************************)
\* C14: for every input size the length field of each write or read slot is
\* the number of bytes the slot transfers, within 1..255: slot 1 of write and
\* write_then_read carries 1 + len(bytes), the number of bytes pushed before
\* it; the first read slot of read and of write_then_read (buffer of 2 or
\* more) carries len(buffer) - 1; also from 255 bytes and 256 buffer bytes
\* on, where no call stops short of staging them
C14_LengthFieldIsByteCount ==
    Entered =>
        /\ \A k \in At(trace, "comd") :
            /\ (call.op \in {"write", "write_then_read"} /\ trace[k].n = 1) =>
                /\ WordLength(trace[k].v) = 1 + Len(call.bytes)
                /\ WordLength(trace[k].v) = Cardinality({j \in At(trace, "fifo_write") : j < k})
            /\ (\/ call.op = "read" /\ trace[k].n = 2
                \/ call.op = "write_then_read" /\ call.buflen >= 2 /\ trace[k].n = 4) =>
                WordLength(trace[k].v) = call.buflen - 1
            /\ WordOpcode(trace[k].v) \in {Opcode_WRITE, Opcode_READ} =>
                WordLength(trace[k].v) \in 1 .. U8_MAX
        /\ pc = "panicked" => call.op = "read" /\ call.buflen < 2

\* C17: after a successful read or write_then_read exactly len(buffer) bytes
\* were popped, all through the read path of the instance and all after the
\* done flag of the last consumed slot was seen set, and buffer[i] holds the
\* i-th byte popped
C17_BufferHoldsPopsInOrder ==
    (result = "Ok" /\ call.op \in {"read", "write_then_read"}) =>
        LET pops == SelectSeq(trace, LAMBDA a : a.t = "fifo_read")
            seen == DoneSeen(trace)
        IN  /\ Len(pops) = call.buflen
            /\ Len(buffer) = call.buflen
            /\ \A i \in 1 .. Len(pops) :
                /\ pops[i].n = fifo_addr(call.self, OperationType_READ)
                /\ buffer[i] = pops[i].v
            /\ seen # << >>
            /\ seen[Len(seen)] = Consumed(call) - 1
            /\ \A k \in At(trace, "fifo_read") : k > Last(At(trace, "comd_done"))

\* a write_then_read into a buffer of three has returned, the buffer holding
\* the three bytes of the device in the order it sent them
C17_Witness ==
    /\ result = "Ok"
    /\ call.op = "write_then_read"
    /\ call.buflen = 3
    /\ buffer = << DeviceByte(1), DeviceByte(2), DeviceByte(3) >>

\* the four FIFO addresses: two paths of two instances
FifoAddresses ==
    {fifo_addr(self, operation_type) :
        self \in Instances, operation_type \in {OperationType_WRITE, OperationType_READ}}

\* C18: for each instance the write-path FIFO address is the read-path FIFO
\* address plus the same constant, the difference of the two bases; the four
\* FIFO addresses are pairwise distinct, and every FIFO access of a call
\* reaches the FIFO of its own instance
C18_FifoWindowsDisjoint ==
    /\ \A self \in Instances :
        fifo_addr(self, OperationType_WRITE) - fifo_addr(self, OperationType_READ)
            = AHB_BASE_ADDR - DPORT_BASE_ADDR
    /\ Cardinality(FifoAddresses) = 4
    /\ \A k \in At(trace, "fifo_write") \cup At(trace, "fifo_read") :
        /\ trace[k].n \in {fifo_addr(call.self, OperationType_WRITE),
                           fifo_addr(call.self, OperationType_READ)}
        /\ \A other \in Instances \ {call.self} :
            trace[k].n \notin {fifo_addr(other, OperationType_WRITE),
                               fifo_addr(other, OperationType_READ)}

\* a write_then_read on I2C1 has pushed through one window and popped through
\* the other
C18_Witness ==
    /\ pc = "done"
    /\ call.op = "write_then_read"
    /\ call.self = "I2C1"
    /\ \E k \in At(trace, "fifo_write") : trace[k].n = AHB_I2C1_ADDR + FIFO_OFFSET
    /\ \E k \in At(trace, "fifo_read") : trace[k].n = DPORT_I2C1_ADDR + FIFO_OFFSET

(***************************************************************************)
(* Termination of the transfers                                            *)
(***************************************************************************)
\* a call of write, of read with a buffer of two or more, or of
\* write_then_read has been made
CallMade == Entered /\ ~(call.op = "read" /\ call.buflen < 2)
\* the engine has stopped short of a slot the call waits for: the hardware
\* will not set the done flag of every staged slot
EngineGaveUp ==
    /\ pc = "wait"
    /\ ~i2c[call.self].run
    /\ \E k \in wi .. Len(call.waits) : ~i2c[call.self].comd[call.waits[k]].done

\* C21: if the hardware sets the done flag of every slot staged before the
\* trigger, every call of write, read (buffer of two or more) and
\* write_then_read eventually returns
C21_EveryCallReturns == CallMade ~> (pc = "done" \/ EngineGaveUp)

(***************************************************************************)
(* Properties of a driver over its life                                    *)
(***************************************************************************)
\* the bit of an instance in perip_rst_en and perip_clk_en
BitOf(i) == IF i = "I2C0" THEN 0 ELSE 1
\* a driver exists and its constructor is over
InUse == applied.op = "driver" /\ pc # "new"
\* a transfer of the driver is in progress or over
InTransfer == InUse /\ call.op \in {"write", "read", "write_then_read"} /\ pc # "idle"
\* the call has just set the trigger bit: the engine has not executed anything
AtTrigger ==
    /\ InTransfer
    /\ pc = "wait"
    /\ wi = 1
    /\ i2c[call.self].run
    /\ i2c[call.self].next = 0
\* the slots the call in progress consumes
ConsumedSlots == 0 .. (Consumed(call) - 1)

\* C22: construction and every transfer on one instance change only that
\* instance's bits in the shared clock block and only that instance's
\* registers and FIFOs: the other instance's reset bit, clock-enable bit,
\* command slots, control and FIFO state stay as they were; once constructed,
\* the instance's reset bit is clear, having been set and then cleared, and
\* its clock-enable bit is set
C22_OtherInstanceUntouched ==
    applied.op = "driver" =>
        /\ \A o \in Instances \ {applied.self} :
            /\ i2c[o] = PeripheralReset
            /\ regs[o] = RegsReset
            /\ dport.perip_rst_en[BitOf(o)] = DportReset.perip_rst_en[BitOf(o)]
            /\ dport.perip_clk_en[BitOf(o)] = DportReset.perip_clk_en[BitOf(o)]
        /\ InUse =>
            /\ dport.perip_rst_en[BitOf(applied.self)] = 0
            /\ dport.perip_clk_en[BitOf(applied.self)] = 1
        /\ pc = "constructed" =>
            \E j, k \in At(trace, "perip_rst_en") :
                /\ j < k
                /\ trace[j].n = BitOf(applied.self) /\ trace[j].v = 1
                /\ trace[k].n = BitOf(applied.self) /\ trace[k].v = 0

\* the driver of I2C1 has been constructed and has made its last transfer
C22_Witness ==
    /\ InTransfer
    /\ applied.self = "I2C1"
    /\ applied.calls = MaxCalls
    /\ pc = "done"
    /\ call.op = "write_then_read"
    /\ dport.perip_clk_en[1] = 1
    /\ dport.perip_clk_en[0] = 0

\* C23: after any earlier transfers, when a call sets the trigger bit the
\* done flag of every slot it consumes is clear, each of them having been
\* written as a whole register in this call; while the call waits, a done
\* flag of a consumed slot is set only if the engine has executed that slot
\* in this transaction
C23_DoneFlagsClearAtTrigger ==
    (InTransfer /\ pc = "wait") =>
        /\ \A s \in ConsumedSlots :
            /\ \E k \in At(trace, "comd") : trace[k].n = s
            /\ i2c[call.self].comd[s].done => s < i2c[call.self].next
        /\ AtTrigger => \A s \in ConsumedSlots : ~i2c[call.self].comd[s].done

\* a write sets the trigger after an earlier, longer transaction whose done
\* flags are still set in the slots the write does not use
C23_Witness ==
    /\ AtTrigger
    /\ call.op = "write"
    /\ applied.calls >= 2
    /\ \A s \in 3 .. 6 : i2c[call.self].comd[s].done

\* C24: in every staged transaction the last consumed slot holds a stop and
\* no earlier consumed slot holds a stop or an end; the engine never goes
\* beyond the stop, so the words an earlier, longer transaction left in the
\* higher slots are not executed
C24_StopEndsTransaction ==
    (InTransfer /\ pc # "panicked") =>
        LET p == i2c[call.self]
            n == Consumed(call)
        IN  /\ WordOpcode(p.comd[n - 1].command) = Opcode_STOP
            /\ \A s \in 0 .. (n - 2) :
                WordOpcode(p.comd[s].command) \notin {Opcode_STOP, Opcode_END}
            /\ p.next <= n
            /\ p.next = n => ~p.run

\* a write has returned after a seven-slot write_then_read: slots 3 to 6 still
\* hold the words of the earlier transaction, and the engine stopped at slot 2
C24_Witness ==
    /\ InTransfer
    /\ call.op = "write"
    /\ pc = "done"
    /\ i2c[call.self].next = 3
    /\ WordOpcode(i2c[call.self].comd[3].command) = Opcode_WRITE
    /\ WordOpcode(i2c[call.self].comd[4].command) = Opcode_READ
    /\ WordOpcode(i2c[call.self].comd[6].command) = Opcode_STOP

\* C25: every transfer resets both FIFO directions before it stages
\* anything; so, whatever the earlier calls left, at the trigger the transmit
\* FIFO holds exactly the bytes this call pushed, the address byte first, and
\* the receive FIFO is empty, and the first byte a call pops is the first
\* byte received in its transaction
C25_FifosStartEmpty ==
    (InTransfer /\ pc # "panicked") =>
        /\ \A d \in {"tx_fifo_rst", "rx_fifo_rst"} :
            \E j \in At(trace, d) :
                /\ trace[j].v = 1
                /\ \A k \in At(trace, "comd") \cup At(trace, "fifo_write") : j < k
        /\ AtTrigger =>
            /\ i2c[call.self].txfifo = PushedBytes(trace)
            /\ i2c[call.self].txfifo[1] =
                   ShiftedAddress(call.addr, IF call.op = "read" THEN 1 ELSE 0)
            /\ i2c[call.self].rxfifo = << >>
        /\ (result = "Ok" /\ call.buflen >= 1) => buffer[1] = DeviceByte(1)

\* a read has returned the bytes of its own transaction after a six-slot
\* write_then_read, the one that receives a byte into a buffer of at most one
C25_Witness ==
    /\ InTransfer
    /\ call.op = "read"
    /\ result = "Ok"
    /\ applied.calls = 2
    /\ buffer = << DeviceByte(1), DeviceByte(2) >>
    /\ WordOpcode(i2c[call.self].comd[5].command) = Opcode_STOP
    /\ i2c[call.self].comd[6].command = 0

\* the configuration construction gives an instance
Constructed(self) ==
    {RegsAfter(RegsReset, new(self, frequency, overflow_checks).acc) :
        frequency \in TransferFrequencies}

\* C27: after construction no sequence of transfers changes the
\* configuration of the instance: timing and timeout, filters, the mode bits
\* and clock enable of ctr, the FIFO-mode bit and the interrupt enables keep
\* the values construction gave them; a transfer writes only command slots,
\* the FIFO reset bits, which it leaves clear, the FIFO and the trigger bit
C27_TransfersKeepConfiguration ==
    InUse =>
        /\ regs[applied.self] \in Constructed(applied.self)
        /\ InTransfer =>
            /\ \A k \in 1 .. Len(trace) :
                trace[k].t \in {"comd", "tx_fifo_rst", "rx_fifo_rst", "fifo_write",
                                "trans_start", "comd_done", "fifo_read"}
            /\ pc # "panicked" =>
                /\ i2c[call.self].tx_fifo_rst = 0
                /\ i2c[call.self].rx_fifo_rst = 0

\* the last transfer of a driver has returned, the instance still configured
\* for a 100 kHz bus in master mode with its clock enabled
C27_Witness ==
    /\ InTransfer
    /\ applied.calls = MaxCalls
    /\ pc = "done"
    /\ call.op = "write_then_read"
    /\ regs[applied.self].time_out = 8000
    /\ regs[applied.self].scl_low_period = 400
    /\ regs[applied.self].ctr.ms_mode = 1
    /\ regs[applied.self].ctr.clk_en = 1
    /\ regs[applied.self].sda_filter_thres = 7

(***************************************************************************)
(* The outgoing phase of write and of write_then_read                      *)
(***************************************************************************)
\* the words a plan stages in slot n
StagedIn(acc, n) == {acc[k].v : k \in {j \in At(acc, "comd") : acc[j].n = n}}

\* C26: for the same address and bytes the slot-1 write command of
\* write_then_read is the slot-1 write command of write, field by field
C26_SameOutgoingCommand ==
    (Entered /\ call.op = "write_then_read") =>
        StagedIn(trace, 1)
            = StagedIn(write(call.self, call.addr, call.bytes, overflow_checks).acc, 1)

====
